---- MODULE Spec2Model ----
(***************************************************************************)
(* A model of pybencher (src/src/pybencher.py): the Suite registry and its *)
(* setters, the measurement loop Suite._run_test around _Function.__call__,*)
(* the trimmed statistics of Suite._get_output_details and the duration    *)
(* formatter Suite._pretty_time.                                           *)
(*                                                                         *)
(* Numbers.  Durations are whole seconds.  The trim fraction cut is a      *)
(* rational <<n, d>> (0.05 is <<1, 20>>); Python's int(x) of a             *)
(* non-negative float is the floor, written here with \div on the exact    *)
(* rational.  For the fractions of Cuts and the run lengths of this model  *)
(* the float expressions of the source and the exact ones agree.  An       *)
(* average is the rational <<sum, len>>, a standard deviation is kept as   *)
(* its square <<num, den>>.  The formatter reads a decimal <<m, j>>, which *)
(* is m * 10^-j seconds.                                                   *)
(***************************************************************************)
EXTENDS Integers, Sequences, FiniteSets, TLC

VARIABLES tests, timeout, max_itr, min_itr, cut, beforeFunc, afterFunc,
          pc, idx, times, total_time, executions, actual_max_runs,
          clock, trace, out, err, details, t_in, text

vars == <<tests, timeout, max_itr, min_itr, cut, beforeFunc, afterFunc,
          pc, idx, times, total_time, executions, actual_max_runs,
          clock, trace, out, err, details, t_in, text>>

\* ---------------------------------------------------------------- bounds

\* Largest value the model passes to set_max_itr and set_min_itr, and the
\* largest max_itr with which the model starts a run.
MaxItr == 3

\* Largest number of work units the model registers.
MaxTests == 2

\* Longest raw sample handed directly to the statistics engine.
MaxLen == 4

\* ------------------------------------------------------------- constants

\* Suite.__init__ defaults.
DefaultTimeout == 10

DefaultMaxItr == 1000

DefaultMinItr == 3

DefaultCut == <<1, 20>>

None == "None"

\* ------------------------------------------------------------ arithmetic

RECURSIVE Pow10(_)
Pow10(k) == IF k = 0 THEN 1 ELSE 10 * Pow10(k - 1)

RECURSIVE SumSeq(_)
SumSeq(s) == IF s = <<>> THEN 0 ELSE Head(s) + SumSeq(Tail(s))

RECURSIVE SumSqSeq(_)
SumSqSeq(s) == IF s = <<>> THEN 0 ELSE Head(s) * Head(s) + SumSqSeq(Tail(s))

\* round-half-to-even of the non-negative rational n / d
RoundHalfEven(n, d) ==
    LET q == n \div d
        r == n % d
    IN  IF 2 * r < d THEN q
        ELSE IF 2 * r > d THEN q + 1
        ELSE IF q % 2 = 0 THEN q ELSE q + 1

RECURSIVE Digits(_)
Digits(m) == IF m < 10 THEN 1 ELSE 1 + Digits(m \div 10)

\* ------------------------------------------------------ sorted(times)

RECURSIVE Insert(_, _)
Insert(x, s) ==
    IF s = <<>> THEN <<x>>
    ELSE IF x <= Head(s) THEN <<x>> \o s
    ELSE <<Head(s)>> \o Insert(x, Tail(s))

RECURSIVE sorted(_)
sorted(s) == IF s = <<>> THEN <<>> ELSE Insert(Head(s), sorted(Tail(s)))

\* Python's s[lo:hi] for 0 <= lo and 0 <= hi
Slice(s, lo, hi) ==
    LET h == IF hi > Len(s) THEN Len(s) ELSE hi
    IN  IF lo >= h THEN <<>> ELSE SubSeq(s, lo + 1, h)

\* ------------------------------------------------- Suite._run_test, line 172

\* int(self.max_itr / (1-(2*self.cut)))
planned_runs(m, c) == (m * c[2]) \div (c[2] - 2 * c[1])

\* mutant: the break test with "or" in place of "and"
stop_condition_or(tt, ex, to, mn) == tt > to \/ ex >= mn

\* mutant: the break test with ">=" in place of ">"
stop_condition_ge(tt, ex, to, mn) == tt >= to /\ ex >= mn

\* mutant: the break test without the min_itr floor
stop_condition_no_floor(tt, ex, to, mn) == tt > to

\* the break test of line 178, after the invocation has been recorded
stop_condition(tt, ex, to, mn) == tt > to /\ ex >= mn

\* ------------------------------------------- Suite._get_output_details

\* mutant: nothing is trimmed from the low end
trim_lo_none(ex, c) == 0

\* int(executions*self.cut)
trim_lo(ex, c) == (ex * c[1]) \div c[2]

\* int(executions*(1-self.cut))
trim_hi(ex, c) == (ex * (c[2] - c[1])) \div c[2]

\* s = s[int(executions*self.cut):int(executions*(1-self.cut))]
retained(ts, ex, c) == Slice(sorted(ts), trim_lo(ex, c), trim_hi(ex, c))

\* itrps = len(s) / sum(s); int(itrps) if itrps > 10 else round(itrps,2),
\* as a rational.  round is exact here for every quotient but a tie that
\* is no binary fraction (1/40), which no sample of this model produces.
itr_ps(n, sm) ==
    IF n > 10 * sm THEN <<n \div sm, 1>>
    ELSE <<RoundHalfEven(100 * n, sm), 100>>

\* The statistics of the retained slice r (lines 195-209): the first
\* division by len(s) fails on an empty slice, the division by sum(s) on a
\* slice of zeros.
summary_of(full, r, ex) ==
    IF Len(r) = 0 THEN [kind |-> "ZeroDivisionError", at |-> "avg"]
    ELSE IF SumSeq(r) = 0 THEN [kind |-> "ZeroDivisionError", at |-> "itr_ps"]
    ELSE [kind |-> "Summary",
          avg |-> <<SumSeq(r), Len(r)>>,
          std2 |-> <<Len(r) * SumSqSeq(r) - SumSeq(r) * SumSeq(r),
                     Len(r) * Len(r)>>,
          median |-> r[(Len(r) \div 2) + 1],
          minimum |-> full[1],
          maximum |-> full[Len(full)],
          itr_ps |-> itr_ps(Len(r), SumSeq(r)),
          iterations |-> ex,
          counted_iterations |-> Len(r)]

_get_output_details(ts, ex, c) ==
    IF ts = <<>> THEN [kind |-> "IndexError", at |-> "minimum"]
    ELSE summary_of(sorted(ts), retained(ts, ex, c), ex)

\* --------------------------------------------------- Suite._pretty_time

\* self.units in insertion order; the ratio of unit u is 10^-UnitExp[u]
UnitNames == <<"ps", "ns", "us", "ms", "s">>

UnitExp == <<12, 9, 6, 3, 0>>

\* factor * ratio as F * 10^-k: 999.5 * ratio below seconds, 59.95 for seconds
cutoff(u) == IF UnitNames[u] = "s" THEN <<5995, 2>> ELSE <<9995, UnitExp[u] + 1>>

\* m * 10^-j < F * 10^-k, without leaving 32-bit integers (m < 2^31, F < 10^4)
LtDecimal(m, j, F, k) ==
    IF j >= k
    THEN IF j - k >= 6 THEN TRUE ELSE m < F * Pow10(j - k)
    ELSE IF k - j >= 4 THEN m = 0 ELSE m <= (F - 1) \div Pow10(k - j)

\* f'{t/ratio:#.3g}': three significant digits <<sig, p>>, the number
\* sig * 10^p, of m * 10^(e-j); ties to even.
three_digits(m, j, e) ==
    IF m = 0 THEN <<0, -2>>
    ELSE IF Digits(m) <= 3 THEN <<m * Pow10(3 - Digits(m)), e - j - (3 - Digits(m))>>
    ELSE LET q == Digits(m) - 3
             s == RoundHalfEven(m, Pow10(q))
         IN  IF s = 1000 THEN <<100, e - j + q + 1>> ELSE <<s, e - j + q>>

\* the first unit of self.units whose cutoff exceeds t, 0 when none does
first_unit(t) ==
    IF \E u \in 1..5 : LtDecimal(t[1], t[2], cutoff(u)[1], cutoff(u)[2])
    THEN CHOOSE u \in 1..5 :
            /\ LtDecimal(t[1], t[2], cutoff(u)[1], cutoff(u)[2])
            /\ \A v \in 1..(u - 1) : ~LtDecimal(t[1], t[2], cutoff(v)[1], cutoff(v)[2])
    ELSE 0

\* Line 188 evaluates dt.timedelta with dt bound to the class
\* datetime.datetime (line 1), which has no attribute timedelta.
_pretty_time(t) ==
    IF first_unit(t) # 0
    THEN [kind |-> "str", form |-> "number+unit",
          num |-> three_digits(t[1], t[2], UnitExp[first_unit(t)]),
          unit |-> UnitNames[first_unit(t)]]
    ELSE [kind |-> "AttributeError", form |-> "none"]

\* ------------------------------------------------------------ the values

\* The values the model passes to add, before and after: two functions, a
\* callable object that has no __name__ (a functools.partial), and an int.
Functions == {"f", "g"}

Hooks == {"h"}

Values == Functions \cup {"partial", "42"}

callable(x) == x \in Functions \cup Hooks \cup {"partial"}

\* func.__name__ exists (lines 16 and 34)
has_name(x) == x \in Functions \cup Hooks

\* the fractions the model passes to set_cut
Cuts == {<<0, 1>>, <<1, 20>>, <<1, 4>>}

\* the seconds the model passes to set_timeout
Timeouts == {1, 4}

\* the seconds one call of a work unit may take
Durations == {0, 1, 5, 64}

\* the seconds one call of each function takes in the Suite specification
work_time(name) == IF name = "f" THEN 1 ELSE 5

\* the seconds one call of a hook takes
hook_time(h) == IF h = None THEN 0 ELSE 2

\* ------------------------------------------- _Function.__init__, line 28

new_Function(x) == [name |-> x, before |-> None, after |-> None]

\* ----------------------------------------- _Function.__call__, line 40

\* mutant: the timer is started before the before-hook and stopped after
\* the after-hook
Function_call_hooks_timed(test, d, clk) ==
    LET start_time == clk
        call_at == clk + hook_time(test.before)
        end_time == call_at + d + hook_time(test.after)
    IN  [events |->
            <<[ev |-> "timer_start", who |-> "perf_counter", at |-> start_time, took |-> 0]>>
            \o (IF test.before # None
                THEN <<[ev |-> "before", who |-> test.before, at |-> clk, took |-> hook_time(test.before)]>>
                ELSE <<>>)
            \o <<[ev |-> "call", who |-> test.name, at |-> call_at, took |-> d]>>
            \o (IF test.after # None
                THEN <<[ev |-> "after", who |-> test.after, at |-> call_at + d, took |-> hook_time(test.after)]>>
                ELSE <<>>)
            \o <<[ev |-> "timer_stop", who |-> "perf_counter", at |-> end_time, took |-> 0]>>,
         elapsed |-> end_time - start_time,
         clock |-> end_time]

\* One timed invocation of a work unit whose callable runs for d seconds,
\* begun when perf_counter reads clk: the steps in order, each with the
\* clock reading at which it starts, the returned elapsed time, and the
\* clock reading at the return.
Function_call(test, d, clk) ==
    LET start_time == clk + hook_time(test.before)
        end_time == start_time + d
    IN  [events |->
            (IF test.before # None
             THEN <<[ev |-> "before", who |-> test.before, at |-> clk, took |-> hook_time(test.before)]>>
             ELSE <<>>)
            \o <<[ev |-> "timer_start", who |-> "perf_counter", at |-> start_time, took |-> 0],
                 [ev |-> "call", who |-> test.name, at |-> start_time, took |-> d],
                 [ev |-> "timer_stop", who |-> "perf_counter", at |-> end_time, took |-> 0]>>
            \o (IF test.after # None
                THEN <<[ev |-> "after", who |-> test.after, at |-> end_time, took |-> hook_time(test.after)]>>
                ELSE <<>>),
         elapsed |-> end_time - start_time,
         clock |-> end_time + hook_time(test.after)]

\* --------------------------------------- Suite._applyBeforeAfter, line 161

applyBeforeAfter(ts, b, a) ==
    [i \in 1..Len(ts) |-> [ts[i] EXCEPT !.before = b, !.after = a]]

\* ------------------------------------------------------- Suite.run output

\* print(f'Running tests {[t.name for t in self.tests]}')
header_line(ts) == [kind |-> "header", names |-> [i \in 1..Len(ts) |-> ts[i].name]]

\* the float avg as the decimal the formatter reads, to the microsecond
avg_decimal(avg) == <<(avg[1] * Pow10(6)) \div avg[2], 6>>

\* print(f'{func.name}: {self._pretty_time(details["avg"])}/itr | {details["itr_ps"]} itr/s')
summary_line(test, d) ==
    [kind |-> "summary", name |-> test.name,
     avg |-> _pretty_time(avg_decimal(d.avg)), itr_ps |-> d.itr_ps]

\* ------------------------------------------------------------- the state

NoDetails == [kind |-> "None"]

NoText == [kind |-> "None"]

\* the locals of a call that has returned
NoCall ==
    /\ idx' = 0
    /\ times' = <<>>
    /\ total_time' = 0
    /\ executions' = 0
    /\ actual_max_runs' = 0
    /\ clock' = 0
    /\ trace' = <<>>
    /\ details' = NoDetails

\* Suite.__init__, lines 61-84
Init ==
    /\ tests = <<>>
    /\ timeout = DefaultTimeout
    /\ max_itr = DefaultMaxItr
    /\ min_itr = DefaultMinItr
    /\ cut = DefaultCut
    /\ beforeFunc = None
    /\ afterFunc = None
    /\ pc = "idle"
    /\ idx = 0
    /\ times = <<>>
    /\ total_time = 0
    /\ executions = 0
    /\ actual_max_runs = 0
    /\ clock = 0
    /\ trace = <<>>
    /\ out = <<>>
    /\ err = None
    /\ details = NoDetails
    /\ t_in = <<0, 0>>
    /\ text = NoText

\* --------------------------------------------------------- the setters

set_timeout(t) ==
    /\ pc = "idle"
    /\ timeout' = t
    /\ out' = <<>>
    /\ err' = None
    /\ NoCall
    /\ UNCHANGED <<tests, max_itr, min_itr, cut, beforeFunc, afterFunc, pc, t_in, text>>

set_max_itr(n) ==
    /\ pc = "idle"
    /\ max_itr' = n
    /\ out' = <<>>
    /\ err' = None
    /\ NoCall
    /\ UNCHANGED <<tests, timeout, min_itr, cut, beforeFunc, afterFunc, pc, t_in, text>>

set_min_itr(n) ==
    /\ pc = "idle"
    /\ min_itr' = n
    /\ out' = <<>>
    /\ err' = None
    /\ NoCall
    /\ UNCHANGED <<tests, timeout, max_itr, cut, beforeFunc, afterFunc, pc, t_in, text>>

set_cut(c) ==
    /\ pc = "idle"
    /\ cut' = c
    /\ out' = <<>>
    /\ err' = None
    /\ NoCall
    /\ UNCHANGED <<tests, timeout, max_itr, min_itr, beforeFunc, afterFunc, pc, t_in, text>>

\* ------------------------------------------------ Suite.add, line 101

\* the registry after add(x) and the exception add(x) raises
add_result(ts, x) ==
    IF ~callable(x) THEN [tests |-> ts, err |-> "TypeError"]
    ELSE IF ~has_name(x) THEN [tests |-> ts, err |-> "AttributeError"]
    ELSE [tests |-> Append(ts, new_Function(x)), err |-> None]

add(x) ==
    /\ pc = "idle"
    /\ Len(add_result(tests, x).tests) <= MaxTests
    /\ tests' = add_result(tests, x).tests
    /\ err' = add_result(tests, x).err
    /\ out' = <<>>
    /\ NoCall
    /\ UNCHANGED <<timeout, max_itr, min_itr, cut, beforeFunc, afterFunc, pc, t_in, text>>

\* -------------------------------- Suite.before, Suite.after, lines 117-127

\* _BeforeAfter.__init__ reads func.__name__ (line 16)
hook_result(old, x) ==
    IF has_name(x) THEN [hook |-> x, err |-> None]
    ELSE [hook |-> old, err |-> "AttributeError"]

before(x) ==
    /\ pc = "idle"
    /\ beforeFunc' = hook_result(beforeFunc, x).hook
    /\ err' = hook_result(beforeFunc, x).err
    /\ out' = <<>>
    /\ NoCall
    /\ UNCHANGED <<tests, timeout, max_itr, min_itr, cut, afterFunc, pc, t_in, text>>

after(x) ==
    /\ pc = "idle"
    /\ afterFunc' = hook_result(afterFunc, x).hook
    /\ err' = hook_result(afterFunc, x).err
    /\ out' = <<>>
    /\ NoCall
    /\ UNCHANGED <<tests, timeout, max_itr, min_itr, cut, beforeFunc, pc, t_in, text>>

\* ---------------------------------------------- Suite.clear, line 129

\* mutant: clear leaves the registry as it is
clear_result_noop(ts) == ts

clear_result(ts) == <<>>

clear ==
    /\ pc = "idle"
    /\ tests' = clear_result(tests)
    /\ err' = None
    /\ out' = <<>>
    /\ NoCall
    /\ UNCHANGED <<timeout, max_itr, min_itr, cut, beforeFunc, afterFunc, pc, t_in, text>>

\* ------------------------------------------------ Suite.run, line 211

\* where _run_test stands once it has computed actual_max_runs: in the
\* for loop, or past it when range(actual_max_runs) is empty
enter_loop(amr) == IF amr > 0 THEN "loop" ELSE "report"

\* what run prints before it measures anything
run_prologue(ts) == <<header_line(ts)>>

\* run, up to the first _run_test: the header line, _setup, and the locals
\* of _run_test for the first work unit; with no work unit run returns.
run ==
    /\ pc = "idle"
    /\ tests = <<>> \/ max_itr <= MaxItr
    /\ out' = run_prologue(tests)
    /\ tests' = applyBeforeAfter(tests, beforeFunc, afterFunc)
    /\ err' = None
    /\ times' = <<>>
    /\ total_time' = 0
    /\ executions' = 0
    /\ clock' = 0
    /\ trace' = <<>>
    /\ details' = NoDetails
    /\ IF tests = <<>>
       THEN /\ pc' = "idle"
            /\ idx' = 0
            /\ actual_max_runs' = 0
       ELSE /\ pc' = enter_loop(planned_runs(max_itr, cut))
            /\ idx' = 1
            /\ actual_max_runs' = planned_runs(max_itr, cut)
    /\ UNCHANGED <<timeout, max_itr, min_itr, cut, beforeFunc, afterFunc, t_in, text>>

\* where the loop stands after an iteration (lines 173, 178-179)
after_iteration(tt, ex, amr, to, mn) ==
    IF stop_condition(tt, ex, to, mn) THEN "report"
    ELSE IF ex >= amr THEN "report"
    ELSE "loop"

\* One iteration of the for loop of _run_test (lines 173-179): the timed
\* invocation of the work unit, whose callable runs d seconds, and the
\* bookkeeping after it.
Invoke(d) ==
    /\ pc = "loop"
    /\ LET r == Function_call(tests[idx], d, clock)
       IN  /\ trace' = r.events
           /\ clock' = r.clock
           /\ times' = Append(times, r.elapsed)
           /\ total_time' = total_time + r.elapsed
           /\ executions' = executions + 1
           /\ pc' = after_iteration(total_time + r.elapsed, executions + 1,
                                    actual_max_runs, timeout, min_itr)
    /\ UNCHANGED <<tests, timeout, max_itr, min_itr, cut, beforeFunc, afterFunc,
                   idx, actual_max_runs, out, err, details, t_in, text>>

\* the exception lines 223-224 raise for these details, None when the
\* summary line is printed
report_error(test, d) ==
    IF d.kind # "Summary" THEN d.kind
    ELSE IF summary_line(test, d).avg.kind # "str" THEN summary_line(test, d).avg.kind
    ELSE None

\* _run_test has returned (line 180): lines 223-224 for this work unit,
\* then the next work unit's _run_test, or the return of run.  An
\* exception leaves run at once.
Report ==
    /\ pc = "report"
    /\ LET d == _get_output_details(times, executions, cut)
           e == report_error(tests[idx], d)
       IN  /\ details' = d
           /\ err' = e
           /\ out' = IF e = None THEN Append(out, summary_line(tests[idx], d)) ELSE out
           /\ IF e = None /\ idx < Len(tests)
              THEN /\ idx' = idx + 1
                   /\ times' = <<>>
                   /\ total_time' = 0
                   /\ executions' = 0
                   /\ trace' = <<>>
                   /\ pc' = enter_loop(actual_max_runs)
              ELSE /\ pc' = "idle"
                   /\ UNCHANGED <<idx, times, total_time, executions, trace>>
    /\ UNCHANGED <<tests, timeout, max_itr, min_itr, cut, beforeFunc, afterFunc,
                   actual_max_runs, clock, t_in, text>>

Next ==
    \/ \E t \in Timeouts : set_timeout(t)
    \/ \E n \in 1..MaxItr : set_max_itr(n)
    \/ \E n \in 1..MaxItr : set_min_itr(n)
    \/ \E c \in Cuts : set_cut(c)
    \/ \E x \in Values : add(x)
    \/ \E x \in Hooks \cup {"42"} : before(x)
    \/ \E x \in Hooks \cup {"42"} : after(x)
    \/ clear
    \/ run
    \/ Invoke(work_time(tests[idx].name))
    \/ Report

Spec == Init /\ [][Next]_vars

\* ------------------------------------- the measurement loop on its own

\* The state in which run enters _run_test for a single registered work
\* unit, for every configuration the setters can have produced; the work
\* unit's calls then take any of Durations.
InitRun ==
    /\ timeout \in Timeouts
    /\ max_itr \in 1..MaxItr
    /\ min_itr \in 1..MaxItr
    /\ cut \in Cuts
    /\ beforeFunc \in Hooks \cup {None}
    /\ afterFunc \in Hooks \cup {None}
    /\ tests = applyBeforeAfter(<<new_Function("f")>>, beforeFunc, afterFunc)
    /\ pc = enter_loop(planned_runs(max_itr, cut))
    /\ idx = 1
    /\ times = <<>>
    /\ total_time = 0
    /\ executions = 0
    /\ actual_max_runs = planned_runs(max_itr, cut)
    /\ clock = 0
    /\ trace = <<>>
    /\ out = run_prologue(tests)
    /\ err = None
    /\ details = NoDetails
    /\ t_in = <<0, 0>>
    /\ text = NoText

NextRun ==
    \/ \E d \in Durations : Invoke(d)
    \/ Report

SpecRun == InitRun /\ [][NextRun]_vars

\* ----------------------------------- the statistics engine on its own

\* the seconds of the raw samples handed directly to the statistics engine
StatDurations == {0, 1, 2, 64}

\* the trim fractions under which they are summarised
StatCuts == Cuts \cup {<<3, 8>>}

Samples == UNION {[1..n -> StatDurations] : n \in 0..MaxLen}

\* The state in which _run_test has returned a raw sample: any sample of
\* at most MaxLen durations, under any trim fraction of StatCuts.
InitStats ==
    /\ times \in Samples
    /\ cut \in StatCuts
    /\ timeout = DefaultTimeout
    /\ max_itr = DefaultMaxItr
    /\ min_itr = DefaultMinItr
    /\ beforeFunc = None
    /\ afterFunc = None
    /\ tests = <<new_Function("f")>>
    /\ pc = "report"
    /\ idx = 1
    /\ total_time = SumSeq(times)
    /\ executions = Len(times)
    /\ actual_max_runs = planned_runs(max_itr, cut)
    /\ clock = SumSeq(times)
    /\ trace = <<>>
    /\ out = run_prologue(tests)
    /\ err = None
    /\ details = NoDetails
    /\ t_in = <<0, 0>>
    /\ text = NoText

NextStats == Report

SpecStats == InitStats /\ [][NextStats]_vars

\* ------------------------------------------- the formatter on its own

\* The decimals handed directly to the formatter.  A decimal that lies
\* exactly between two three-digit numbers is left out unless it is a
\* binary fraction: the source rounds the float nearest to it, which may
\* lie on either side, and three_digits rounds the decimal itself.
Mantissas == {0, 1, 5, 12, 59, 60, 123, 999, 1000, 1234, 1236, 3600,
              5994, 5996, 9994, 9996, 86400}

FmtInputs ==
    {<<m, j>> : m \in Mantissas, j \in {0, 2, 3, 4, 6, 7, 9, 12, 13}}
    \cup {<<5995, 2>>, <<3125, 4>>}

InitFmt ==
    /\ t_in \in FmtInputs
    /\ text = NoText
    /\ pc = "format"
    /\ tests = <<>>
    /\ timeout = DefaultTimeout
    /\ max_itr = DefaultMaxItr
    /\ min_itr = DefaultMinItr
    /\ cut = DefaultCut
    /\ beforeFunc = None
    /\ afterFunc = None
    /\ idx = 0
    /\ times = <<>>
    /\ total_time = 0
    /\ executions = 0
    /\ actual_max_runs = 0
    /\ clock = 0
    /\ trace = <<>>
    /\ out = <<>>
    /\ err = None
    /\ details = NoDetails

\* one call of _pretty_time(t_in)
Format ==
    /\ pc = "format"
    /\ text' = _pretty_time(t_in)
    /\ err' = IF _pretty_time(t_in).kind = "str" THEN None ELSE _pretty_time(t_in).kind
    /\ pc' = "formatted"
    /\ UNCHANGED <<tests, timeout, max_itr, min_itr, cut, beforeFunc, afterFunc,
                   idx, times, total_time, executions, actual_max_runs,
                   clock, trace, out, details, t_in>>

NextFmt == Format

SpecFmt == InitFmt /\ [][NextFmt]_vars

\* ================================================================ claims

\* timeout > 0, 1 <= min_itr <= max_itr, 0 <= cut < 0.5
ValidConfig ==
    /\ timeout > 0
    /\ 1 <= min_itr
    /\ min_itr <= max_itr
    /\ 0 <= cut[1]
    /\ 2 * cut[1] < cut[2]

\* the sum of the first k recorded durations
PrefixTime(k) == SumSeq(SubSeq(times, 1, k))

\* the stop condition of the claims after k invocations
StopsAt(k) == k >= min_itr /\ PrefixTime(k) > timeout

\* q = floor(a / b), stated without division
IsFloor(q, a, b) == q * b <= a /\ a < (q + 1) * b

\* floor(n*c) and floor(n*(1-c)) for the trim fraction c
FloorLo(n, c) == CHOOSE q \in 0..n : IsFloor(q, n * c[1], c[2])

FloorHi(n, c) == CHOOSE q \in 0..n : IsFloor(q, n * (c[2] - c[1]), c[2])

\* the i-th smallest element of a sample, counted from 1
KthSmallest(ts, i) ==
    CHOOSE v \in {ts[j] : j \in 1..Len(ts)} :
        /\ Cardinality({j \in 1..Len(ts) : ts[j] < v}) < i
        /\ i <= Cardinality({j \in 1..Len(ts) : ts[j] <= v})

\* the sorted elements of the sample at the indices [lo, hi), counted from 0
SortedRange(ts, lo, hi) == [i \in 1..(hi - lo) |-> KthSmallest(ts, lo + i)]

\* C1: for 1 <= min_itr <= max_itr and 0 <= cut < 0.5, whatever the timeout
\* and the durations, _run_test has completed at least min_itr invocations
\* when it returns; with min_itr = 3, timeout = 1 and every invocation
\* taking 5 s it returns after exactly 3.
C1_MinItrFloor ==
    (pc = "report" /\ ValidConfig) =>
        /\ executions >= min_itr
        /\ Len(times) >= min_itr
        /\ (min_itr = 3 /\ timeout = 1 /\ \A i \in 1..Len(times) : times[i] = 5)
              => executions = 3

\* C1 witness: _run_test returns with min_itr = 3 and timeout = 1 after
\* three invocations of 5 s, the first of which alone exceeds the timeout.
C1_Witness ==
    /\ pc = "report"
    /\ ValidConfig
    /\ min_itr = 3
    /\ timeout = 1
    /\ times = <<5, 5, 5>>

\* C8: actual_max_runs is floor(max_itr / (1 - 2*cut)) (1111 for 1000 and
\* 0.05, max_itr for cut 0); _run_test performs exactly the smallest number
\* k of invocations with k >= min_itr and the first k durations summing to
\* more than timeout, if there is one up to actual_max_runs, and exactly
\* actual_max_runs otherwise; no invocation starts once the stop condition
\* has held; executions is the length of the raw sample.
C8_IterationCount ==
    /\ planned_runs(1000, <<1, 20>>) = 1111
    /\ planned_runs(max_itr, <<0, 1>>) = max_itr
    /\ pc \in {"loop", "report"} =>
          /\ IsFloor(actual_max_runs, max_itr * cut[2], cut[2] - 2 * cut[1])
          /\ executions = Len(times)
    /\ pc = "loop" =>
          /\ executions < actual_max_runs
          /\ \A k \in 1..executions : ~StopsAt(k)
    /\ pc = "report" =>
          /\ executions <= actual_max_runs
          /\ \A k \in 1..(executions - 1) : ~StopsAt(k)
          /\ StopsAt(executions) \/ executions = actual_max_runs

\* C8 witness: _run_test returns early, after more than min_itr and fewer
\* than actual_max_runs invocations.
C8_Witness ==
    /\ pc = "report"
    /\ min_itr < executions
    /\ executions < actual_max_runs
    /\ StopsAt(executions)

C2_DegenerateSampleError ==
    (/\ details # NoDetails
     /\ times # <<>>
     /\ FloorHi(executions, cut) - FloorLo(executions, cut) = 0)
        => details.kind = "DegenerateSample"

\* C10: for a sample of non-negative durations whose retained slice is not
\* empty, zero durations included, the statistics engine returns a complete
\* Summary with an itr_ps.
C10_SummaryForZeroDurations ==
    (/\ details # NoDetails
     /\ times # <<>>
     /\ \A i \in 1..Len(times) : times[i] >= 0
     /\ FloorHi(executions, cut) - FloorLo(executions, cut) >= 1)
        => /\ details.kind = "Summary"
           /\ details.itr_ps[2] > 0

\* C3: for a sample of n >= 1 durations and a trim fraction 0 <= c < 0.5 the
\* retained slice is the sorted elements at [floor(n*c), floor(n*(1-c))) and
\* counted_iterations is its length; minimum and maximum are the smallest
\* and largest of the whole sample; avg, std and median are those of the
\* retained slice.
C3_TrimmedStatistics ==
    LET n == Len(times)
        lo == FloorLo(n, cut)
        hi == FloorHi(n, cut)
        R == SortedRange(times, lo, hi)
    IN  (n >= 1 /\ executions = n) =>
          /\ lo <= hi
          /\ retained(times, executions, cut) = R
          /\ details # NoDetails => (details.kind = "Summary" <=> (hi > lo /\ SumSeq(R) > 0))
          /\ details.kind = "Summary" =>
                /\ details.counted_iterations = hi - lo
                /\ details.iterations = n
                /\ details.minimum = KthSmallest(times, 1)
                /\ details.maximum = KthSmallest(times, n)
                /\ details.avg = <<SumSeq(R), hi - lo>>
                /\ details.std2 = <<(hi - lo) * SumSqSeq(R) - SumSeq(R) * SumSeq(R),
                                    (hi - lo) * (hi - lo)>>
                /\ details.median = KthSmallest(times, lo + ((hi - lo) \div 2) + 1)

\* C3 witness: a Summary whose retained slice drops a smallest and a
\* largest element that minimum and maximum still report.
C3_Witness ==
    /\ details.kind = "Summary"
    /\ FloorLo(Len(times), cut) >= 1
    /\ FloorHi(Len(times), cut) < Len(times)
    /\ details.counted_iterations >= 2
    /\ details.minimum < retained(times, executions, cut)[1]
    /\ details.maximum > retained(times, executions, cut)[details.counted_iterations]

\* C4: for every duration t >= 59.95 s the formatter returns a string of the
\* form H:MM:SS; it does not fail.
C4_HoursMinutesSeconds ==
    (pc = "formatted" /\ ~LtDecimal(t_in[1], t_in[2], 5995, 2)) =>
        /\ text.kind = "str"
        /\ text.form = "H:MM:SS"

\* C5: add(x) with a non-invocable x raises the error and leaves the registry
\* as it was; add(x) with an invocable x appends exactly one work unit at the
\* end of the registry.
C5_AddContract ==
    [][\A x \in Values :
          add(x) =>
             IF x \in {"f", "g", "partial"}
             THEN /\ tests' = Append(tests, new_Function(x))
                  /\ err' = None
             ELSE /\ tests' = tests
                  /\ err' = "TypeError"]_vars

\* C6 as stated: clear() empties the registry and leaves configuration and
\* hooks as they were, and run() on the emptied registry produces no output
\* and no error.
C6_Original ==
    [][/\ clear => /\ tests' = <<>>
                   /\ UNCHANGED <<timeout, max_itr, min_itr, cut, beforeFunc, afterFunc>>
       /\ (run /\ tests = <<>>) => /\ out' = <<>>
                                  /\ err' = None]_vars

\* C6 as amended: clear() empties the registry and leaves configuration and
\* hooks as they were, and run() on the emptied registry prints only the
\* header line "Running tests []", no line of any work unit, raises no
\* error and returns.
C6_ClearThenRun ==
    [][/\ clear => /\ tests' = <<>>
                   /\ UNCHANGED <<timeout, max_itr, min_itr, cut, beforeFunc, afterFunc>>
       /\ (run /\ tests = <<>>) => /\ out' = <<[kind |-> "header", names |-> <<>>]>>
                                  /\ err' = None
                                  /\ pc' = "idle"
                                  /\ tests' = <<>>]_vars

\* C6 witness: run() has returned on an empty registry of a Suite whose
\* configuration and hooks have been set.
C6_Witness ==
    /\ pc = "idle"
    /\ tests = <<>>
    /\ out = <<[kind |-> "header", names |-> <<>>]>>
    /\ err = None
    /\ beforeFunc # None
    /\ afterFunc # None
    /\ cut # DefaultCut
    /\ max_itr # DefaultMaxItr

\* the steps a timed invocation takes under the Suite's hooks b and a
ExpectedSteps(b, a) ==
    (IF b # None THEN <<"before">> ELSE <<>>)
    \o <<"timer_start", "call", "timer_stop">>
    \o (IF a # None THEN <<"after">> ELSE <<>>)

\* the position of step e in the trace
StepIndex(e) == CHOOSE i \in 1..Len(trace) : trace[i].ev = e

\* C7: during run() every timed invocation performs, in this order, the
\* Suite's currently set before-hook (if any), timer start, one call of the
\* work unit, timer stop, the Suite's currently set after-hook (if any); no
\* hook runs between timer start and timer stop, so the elapsed time and
\* total_time hold the work unit's time only.
C7_InvocationOrder ==
    trace # <<>> =>
        /\ [i \in 1..Len(trace) |-> trace[i].ev] = ExpectedSteps(beforeFunc, afterFunc)
        /\ \A i \in 1..Len(trace) :
              /\ trace[i].ev = "before" => trace[i].who = beforeFunc
              /\ trace[i].ev = "after" => trace[i].who = afterFunc
              /\ trace[i].ev = "call" => trace[i].who = tests[idx].name
              /\ trace[i].ev \in {"before", "after"} =>
                    \/ trace[i].at + trace[i].took <= trace[StepIndex("timer_start")].at
                    \/ trace[i].at >= trace[StepIndex("timer_stop")].at
        /\ times[Len(times)] = trace[StepIndex("timer_stop")].at
                               - trace[StepIndex("timer_start")].at
        /\ times[Len(times)] = trace[StepIndex("call")].took
        /\ \A i \in 1..Len(times) : times[i] = work_time(tests[idx].name)
        /\ total_time = Len(times) * work_time(tests[idx].name)

\* C7 witness: a second timed invocation under both hooks has returned and
\* the loop goes on.
C7_Witness ==
    /\ pc = "loop"
    /\ Len(trace) = 5
    /\ executions >= 2
    /\ beforeFunc # None
    /\ afterFunc # None

====
